---------------------------- MODULE Spec2Model ----------------------------
(***************************************************************************)
(* Ingestion and reconciliation engine of ruian_backend:                   *)
(*   - validate_production_and_worklog  (app/utils/data_vld.py)            *)
(*   - upsert_production_info, upsert_employee_worklog                     *)
(*                                       (app/utils/db_utils.py)           *)
(*   - validate_data                     (app/api/validation.py)           *)
(*   - SessionLocal / get_db             (app/database.py)                 *)
(*   - parse_production_excel, parse_sheet (app/utils/parse_util.py)       *)
(*   - UploadService                     (app/services/upload_service.py)  *)
(*                                                                         *)
(* Specifications of the module:                                           *)
(*   SpecReconcile  the pure classification pass over drawn inputs         *)
(*   Spec           the persisted tables under sequential requests         *)
(*   SpecConc       two upsert_employee_worklog calls interleaving         *)
(*   SpecRecord     upserts of one record, all columns and timestamps      *)
(*   SpecParse      the upload of a production spreadsheet                 *)
(*   SpecFilter     uploads of a production spreadsheet with filter_month  *)
(*   SpecSheet      the upload of a worklog workbook                       *)
(***************************************************************************)
EXTENDS Integers, Sequences, FiniteSets, TLC

VARIABLES
    production_info_list,   \* reconcile input: production objects
    employee_worklog_list,  \* reconcile input: worklog objects (before the call)
    rc,                     \* reconcile call: state, outputs, worklog objects after
    production_tbl,         \* persisted production_info rows
    worklog_tbl,            \* persisted employee_worklog rows
    ops,                    \* number of requests served so far
    last,                   \* the request served last and what it returned
    sess,                   \* concurrent upsert calls: each call's session
    file                    \* the spreadsheet of an upload request

vars == <<production_info_list, employee_worklog_list, rc,
          production_tbl, worklog_tbl, ops, last, sess, file>>

---------------------------------------------------------------------------
(* Value domains *)

\* VldResultEnum members
NOT_VLDED == "NOT_VLDED"
VLD_PASSED == "VLD_PASSED"
PERFORMANCE_EXCEEDS_QUANTITY == "PERFORMANCE_EXCEEDS_QUANTITY"
ORDER_NO_NOT_FOUND == "ORDER_NO_NOT_FOUND"

VldResultEnum ==
    {NOT_VLDED, VLD_PASSED, PERFORMANCE_EXCEEDS_QUANTITY, ORDER_NO_NOT_FOUND}

Orders == {"P1", "P9"}
Employees == {"E1", "E2"}

\* performance_amount values; whole numbers, so that the float sums of
\* data_vld.py:57 are exact
Amounts == {1, 2}
\* production quantities
Quantities == {2, 3}

\* An object that has no worklog_no attribute: ProductionInfo declares no such
\* field (production_info.py:15-50), so reading it raises AttributeError.
NoAttr == "<no attribute>"

\* Bounds of the reconcile inputs
MaxProds == 2
MaxWorklogs == 3

\* Sequences over S of length 0..n
RECURSIVE SeqsUpTo(_, _)
SeqsUpTo(S, n) ==
    IF n = 0 THEN {<<>>}
    ELSE LET shorter == SeqsUpTo(S, n - 1)
         IN  shorter \cup {Append(s, x) : s \in {t \in shorter : Len(t) = n - 1}, x \in S}

---------------------------------------------------------------------------
(* validate_production_and_worklog, data_vld.py:22-102 *)

\* defaultdict: d[k] += v
DictAdd_Overwrite(d, k, v) ==
    [x \in DOMAIN d \cup {k} |-> IF x = k THEN v ELSE d[x]]

DictAdd(d, k, v) ==
    IF k \in DOMAIN d THEN [d EXCEPT ![k] = @ + v]
    ELSE [x \in DOMAIN d \cup {k} |-> IF x = k THEN v ELSE d[x]]

\* defaultdict(list): d[k].append(v)
DictAppend_Overwrite(d, k, v) ==
    [x \in DOMAIN d \cup {k} |-> IF x = k THEN <<v>> ELSE d[x]]

DictAppend(d, k, v) ==
    IF k \in DOMAIN d THEN [d EXCEPT ![k] = Append(@, v)]
    ELSE [x \in DOMAIN d \cup {k} |-> IF x = k THEN <<v>> ELSE d[x]]

\* defaultdict(int): d[k] read
DictGet(d, k) == IF k \in DOMAIN d THEN d[k] ELSE 0

EmptyDict == [x \in {} |-> 0]

\* step 1 raises AttributeError at the first object without worklog_no
RaisesAttributeError(prods) ==
    \E i \in DOMAIN prods : prods[i].worklog_no = NoAttr

\* step 1: production_agg[prod.worklog_no] += prod.quantity
RECURSIVE ProductionAgg(_, _)
ProductionAgg(prods, agg) ==
    IF prods = <<>> THEN agg
    ELSE ProductionAgg(Tail(prods),
                       DictAdd(agg, Head(prods).worklog_no, Head(prods).quantity))

\* step 2: worklog_agg[worklog.order_no] += worklog.performance_amount
RECURSIVE WorklogAgg(_, _)
WorklogAgg(worklogs, agg) ==
    IF worklogs = <<>> THEN agg
    ELSE WorklogAgg(Tail(worklogs),
                    DictAdd(agg, Head(worklogs).order_no,
                            Head(worklogs).performance_amount))

\* step 2: worklog_by_order[worklog.order_no].append(worklog); an object is
\* named by its position in employee_worklog_list
RECURSIVE WorklogByOrder(_, _, _)
WorklogByOrder(worklogs, i, by_order) ==
    IF i > Len(worklogs) THEN by_order
    ELSE WorklogByOrder(worklogs, i + 1,
                        DictAppend(by_order, worklogs[i].order_no, i))

\* step 3 test: order_no not in production_agg
OrderNoNotFound(order_no, production_agg) ==
    order_no \notin DOMAIN production_agg

\* step 4 guard: order_no in production_agg
CheckedForQuantity_Always(order_no, production_agg) == TRUE

CheckedForQuantity(order_no, production_agg) ==
    order_no \in DOMAIN production_agg

\* step 4 test: worklog_sum > production_sum
ExceedsQuantity_Swapped(worklog_sum, production_sum) ==
    production_sum > worklog_sum

ExceedsQuantity_GE(worklog_sum, production_sum) ==
    worklog_sum >= production_sum

ExceedsQuantity(worklog_sum, production_sum) ==
    worklog_sum > production_sum

\* step 5 test: order_no not in exception_order_nos
IsNormalOrder_Always(order_no, exception_order_nos) == TRUE

IsNormalOrder(order_no, exception_order_nos) ==
    order_no \notin exception_order_nos

Range(f) == {f[x] : x \in DOMAIN f}

SetResult_KeepsStale(worklogs, by_order, orders, v) ==
    LET touched == UNION {Range(by_order[o]) : o \in orders}
    IN  [i \in DOMAIN worklogs |->
            IF i \in touched /\ worklogs[i].validation_result = NOT_VLDED
            THEN [worklogs[i] EXCEPT !.validation_result = v]
            ELSE worklogs[i]]

SetResult_ClearsAmount(worklogs, by_order, orders, v) ==
    LET touched == UNION {Range(by_order[o]) : o \in orders}
    IN  [i \in DOMAIN worklogs |->
            IF i \in touched
            THEN [worklogs[i] EXCEPT !.validation_result = v, !.performance_amount = 0]
            ELSE worklogs[i]]

\* for worklog in worklog_list: worklog.validation_result = v, for the lists
\* worklog_by_order[o] of the given orders
SetResult(worklogs, by_order, orders, v) ==
    LET touched == UNION {Range(by_order[o]) : o \in orders}
    IN  [i \in DOMAIN worklogs |->
            IF i \in touched THEN [worklogs[i] EXCEPT !.validation_result = v]
            ELSE worklogs[i]]

\* The call: [state, exceptions, normal, worklogs, production_agg]. exceptions maps
\* <<order_no, classification>> and normal maps order_no to the list of
\* worklog objects (positions in the input list); worklogs are the input
\* objects as the call leaves them.
ValidateProductionAndWorklog(prods, worklogs) ==
    IF RaisesAttributeError(prods)
    THEN [state |-> "raised", exceptions |-> EmptyDict, normal |-> EmptyDict,
          worklogs |-> worklogs, production_agg |-> EmptyDict]
    ELSE
    LET production_agg == ProductionAgg(prods, EmptyDict)
        worklog_agg == WorklogAgg(worklogs, EmptyDict)
        by_order == WorklogByOrder(worklogs, 1, EmptyDict)
        \* step 3
        not_found == {o \in DOMAIN worklog_agg : OrderNoNotFound(o, production_agg)}
        wl3 == SetResult(worklogs, by_order, not_found, ORDER_NO_NOT_FOUND)
        \* step 4
        exceeds == {o \in DOMAIN worklog_agg :
                       /\ CheckedForQuantity(o, production_agg)
                       /\ ExceedsQuantity(worklog_agg[o], DictGet(production_agg, o))}
        wl4 == SetResult(wl3, by_order, exceeds, PERFORMANCE_EXCEEDS_QUANTITY)
        exception_order_nos == not_found \cup exceeds
        \* step 5
        passed == {o \in DOMAIN by_order : IsNormalOrder(o, exception_order_nos)}
        wl5 == SetResult(wl4, by_order, passed, VLD_PASSED)
        exc_keys == {<<o, ORDER_NO_NOT_FOUND>> : o \in not_found}
                    \cup {<<o, PERFORMANCE_EXCEEDS_QUANTITY>> : o \in exceeds}
    IN  [state |-> "returned",
         exceptions |-> [k \in exc_keys |-> by_order[k[1]]],
         normal |-> [o \in passed |-> by_order[o]],
         worklogs |-> wl5,
         production_agg |-> production_agg]

---------------------------------------------------------------------------
(* SpecReconcile: the classification pass applied to drawn inputs *)

\* objects handed in as production records: any object with a quantity; it
\* carries a worklog_no or, as every ProductionInfo instance, none
ProdObjects == [worklog_no : Orders \cup {NoAttr}, quantity : Quantities]

\* worklog objects; validation_result is whatever an earlier run or the
\* parser left
WorklogObjects ==
    [order_no : Orders, performance_amount : Amounts,
     validation_result : {NOT_VLDED, PERFORMANCE_EXCEEDS_QUANTITY}]

NoCall == [state |-> "input"]
NoFile == [kind |-> "none"]
NoRequest == [op |-> "none"]

InitReconcile ==
    /\ production_info_list \in SeqsUpTo(ProdObjects, MaxProds)
    /\ employee_worklog_list \in SeqsUpTo(WorklogObjects, MaxWorklogs)
    /\ rc = NoCall
    /\ production_tbl = {}
    /\ worklog_tbl = {}
    /\ ops = 0
    /\ last = NoRequest
    /\ sess = <<>>
    /\ file = NoFile

Reconcile ==
    /\ rc.state = "input"
    /\ rc' = ValidateProductionAndWorklog(production_info_list, employee_worklog_list)
    /\ UNCHANGED <<production_info_list, employee_worklog_list,
                   production_tbl, worklog_tbl, ops, last, sess, file>>

NextReconcile == Reconcile

SpecReconcile == InitReconcile /\ [][NextReconcile]_vars

---------------------------------------------------------------------------
(* The persisted tables and the unit of work, db_utils.py and database.py *)

\* work_date, created_at and upload_date values (days)
Dates == {1, 2}

\* Bounds of the sequential specification
MaxBatch == 2
MaxOps == 3

\* EmployeeWorklog objects handed to upsert_employee_worklog. Under Spec one
\* sheet (employee) uploads, and work_date is the field that varies between
\* two records of a key.
WorklogModels ==
    [order_no : Orders, employee_id : {"E1"}, performance_amount : {1},
     work_date : Dates, validation_result : VldResultEnum]

\* what the worklog parser builds: validation_result is the default
ParsedWorklogs == {w \in WorklogModels : w.validation_result = NOT_VLDED}

\* ProductionInfo objects handed to upsert_production_info. Under Spec they
\* agree on the five key fields; quantity and created_at vary.
ProductionModels ==
    [order_no : {"P1"}, model : {"M1"}, brand_no : {"B1"}, job_type : {"J1"},
     upload_date : {1}, quantity : Quantities, created_at : Dates]

\* datetime.now(...) during request number n + 1: later than the timestamps
\* that records bring with them, and later with every request
Clock(n) == 10 + n

\* A session (SessionLocal, autoflush=False): the rows it has loaded, as
\* loaded and as the call has changed them in memory, and the objects added
\* and not yet inserted. Nothing reaches the database before commit.
NoRows == [x \in {} |-> {}]
NewSession == [loaded |-> NoRows, dirty |-> NoRows, new |-> <<>>]

FnPut(f, k, v) == [x \in DOMAIN f \cup {k} |-> IF x = k THEN v ELSE f[x]]

\* filter(and_(order_no == ..., employee_id == ...)), db_utils.py:90-96
SameWorklogKey(row, w) ==
    row.order_no = w.order_no /\ row.employee_id = w.employee_id

\* filter(and_(...five columns...)), db_utils.py:37-45
SameProductionKey_IgnoresUploadDate(row, p) ==
    /\ row.order_no = p.order_no
    /\ row.model = p.model
    /\ row.brand_no = p.brand_no
    /\ row.job_type = p.job_type

SameProductionKey(row, p) ==
    /\ row.order_no = p.order_no
    /\ row.model = p.model
    /\ row.brand_no = p.brand_no
    /\ row.job_type = p.job_type
    /\ row.upload_date = p.upload_date

\* The rows and records of a specification carry the columns it tracks; an
\* assignment or a constructor keyword for a column that is not tracked has
\* no effect in it.

\* the attributes assigned from the record on a match, db_utils.py:103-112
WorklogAssigned ==
    {"model", "brand_no", "employee_name", "job_type", "quantity",
     "performance_factor", "performance_amount", "work_date", "upload_date",
     "validation_result"}

\* the keywords of EmployeeWorklogDB(...), db_utils.py:117-130
WorklogInserted ==
    {"order_no", "model", "brand_no", "employee_id", "employee_name", "job_type",
     "quantity", "performance_factor", "performance_amount", "work_date",
     "upload_date", "validation_result", "created_at", "updated_at"}

\* the attributes assigned from the record on a match, db_utils.py:51-52
ProductionAssigned == {"quantity", "performance_factor"}

\* the keywords of ProductionInfoDB(...), db_utils.py:57-65
ProductionInserted ==
    {"order_no", "model", "brand_no", "quantity", "job_type",
     "performance_factor", "upload_date", "created_at", "updated_at"}

\* existing.<attribute> = <record>.<attribute> for the assigned attributes,
\* then existing.updated_at = datetime.now(timezone.utc)
AssignFrom(row, rec, assigned, now) ==
    [f \in DOMAIN row |->
        IF f \in assigned /\ f \in DOMAIN rec THEN rec[f]
        ELSE IF f = "updated_at" THEN now
        ELSE row[f]]

\* if existing: ..., db_utils.py:101-113
UpdateWorklog_KeepsWorkDate(row, w, now) ==
    AssignFrom(row, w, WorklogAssigned \ {"work_date"}, now)

UpdateWorklog(row, w, now) == AssignFrom(row, w, WorklogAssigned, now)

\* else: EmployeeWorklogDB(...), db_utils.py:115-132; the id comes with the INSERT
NewWorklogRow(w) == [f \in WorklogInserted \cap DOMAIN w |-> w[f]]

\* if existing: quantity, performance_factor and updated_at, db_utils.py:49-53
UpdateProduction_KeepsUpdatedAt(row, p, now) ==
    AssignFrom(row, p, ProductionAssigned, row.updated_at)

UpdateProduction(row, p, now) == AssignFrom(row, p, ProductionAssigned, now)

\* else: ProductionInfoDB(...), db_utils.py:55-67
NewProductionRow(p) == [f \in ProductionInserted \cap DOMAIN p |-> p[f]]

\* The row object a query result maps to: the session keeps one object per
\* row id, and an object it already holds keeps its in-memory values.
CurrentOf(s, m) == IF m.id \in DOMAIN s.dirty THEN s.dirty[m.id] ELSE m

\* the session after the attributes of the object of row m have been assigned
Touch(s, m, updated) ==
    [s EXCEPT !.loaded = IF m.id \in DOMAIN @ THEN @ ELSE FnPut(@, m.id, m),
              !.dirty = FnPut(@, m.id, updated)]

\* One pass of the loop body of upsert_employee_worklog against the committed
\* rows db: .first() has no ORDER BY, so it may return any matching row; the
\* rows another record of the same call has added are not in db.
StageWorklog(db, s, w, now) ==
    LET matches == {r \in db : SameWorklogKey(r, w)}
    IN  IF matches = {}
        THEN {[s EXCEPT !.new = Append(@, NewWorklogRow(w))]}
        ELSE {Touch(s, m, UpdateWorklog(CurrentOf(s, m), w, now)) : m \in matches}

\* One pass of the loop body of upsert_production_info
StageProduction(db, s, p, now) ==
    LET matches == {r \in db : SameProductionKey(r, p)}
    IN  IF matches = {}
        THEN {[s EXCEPT !.new = Append(@, NewProductionRow(p))]}
        ELSE {Touch(s, m, UpdateProduction(CurrentOf(s, m), p, now)) : m \in matches}

\* the sessions the loop can end in, for the records batch[i..]
RECURSIVE StageAllWorklog(_, _, _, _)
StageAllWorklog(db, s, batch, now) ==
    IF batch = <<>> THEN {s}
    ELSE UNION {StageAllWorklog(db, s2, Tail(batch), now) :
                    s2 \in StageWorklog(db, s, Head(batch), now)}

RECURSIVE StageAllProduction(_, _, _, _)
StageAllProduction(db, s, batch, now) ==
    IF batch = <<>> THEN {s}
    ELSE UNION {StageAllProduction(db, s2, Tail(batch), now) :
                    s2 \in StageProduction(db, s, Head(batch), now)}

\* flush: UPDATE ... SET <the attributes whose value differs from the loaded
\* one> WHERE id = ...
Flushed(row, loaded, cur) ==
    [f \in DOMAIN row |-> IF cur[f] # loaded[f] THEN cur[f] ELSE row[f]]

\* db.commit(), db_utils.py:70 and :135: flush the session, then commit
Commit(db, s) ==
    {IF r.id \in DOMAIN s.dirty THEN Flushed(r, s.loaded[r.id], s.dirty[r.id]) ELSE r
        : r \in db}
    \cup {[f \in DOMAIN s.new[k] \cup {"id"} |->
              IF f = "id" THEN Cardinality(db) + k ELSE s.new[k][f]]
            : k \in DOMAIN s.new}

\* get_db, database.py:47-51: the session is closed without a commit, which
\* discards what it holds
CloseSession_Commits(db, s) == Commit(db, s)

CloseSession(db, s) == db

\* The tables a call of upsert_employee_worklog can leave. fail_at = 0: the
\* call returns; 1..Len(batch): it raises while handling that record;
\* Len(batch) + 1: db.commit() raises and the transaction is rolled back.
UpsertEmployeeWorklog(db, s, batch, fail_at, now) ==
    IF fail_at = 0
    THEN {Commit(db, s2) : s2 \in StageAllWorklog(db, s, batch, now)}
    ELSE {CloseSession(db, s2) :
            s2 \in StageAllWorklog(db, s, SubSeq(batch, 1, fail_at - 1), now)}

UpsertProductionInfo(db, s, batch, fail_at, now) ==
    IF fail_at = 0
    THEN {Commit(db, s2) : s2 \in StageAllProduction(db, s, batch, now)}
    ELSE {CloseSession(db, s2) :
            s2 \in StageAllProduction(db, s, SubSeq(batch, 1, fail_at - 1), now)}

---------------------------------------------------------------------------
(* validate_data, validation.py:171-311 *)

\* if request.start_date > request.end_date: raise ValidationError
StartAfterEnd_OrEqual(start, end) == start >= end

StartAfterEnd(start, end) == start > end

\* start_date <= column <= end_date
InWindow(d, start, end) == start <= d /\ d <= end

\* the rows of S by ascending id
RECURSIVE ById(_)
ById(S) ==
    IF S = {} THEN <<>>
    ELSE LET r == CHOOSE x \in S : \A y \in S : x.id <= y.id
         IN  <<r>> \o ById(S \ {r})

Reverse(q) == [i \in DOMAIN q |-> q[Len(q) + 1 - i]]

\* .all() without ORDER BY: the order of the rows is the database's choice;
\* the model takes the two orders by id
ListsOf(S) == {ById(S), Reverse(ById(S))}

\* ProductionInfo(id=..., ..., worklog_no=item.worklog_no, ...): the class
\* declares no worklog_no field, so the keyword is dropped and the object has
\* no such attribute (production_info.py:15-50)
ToProductionInfo(row) ==
    [order_no |-> row.order_no, quantity |-> row.quantity,
     created_at |-> row.created_at, worklog_no |-> NoAttr]

\* EmployeeWorklog(id=item.id, ...); float() of a whole amount is that amount
ToEmployeeWorklog(row) ==
    [id |-> row.id, order_no |-> row.order_no, employee_id |-> row.employee_id,
     performance_amount |-> row.performance_amount, work_date |-> row.work_date,
     validation_result |-> row.validation_result]

\* the distinct order numbers of the list, in order of first appearance (the
\* iteration order of the dicts of data_vld.py)
RECURSIVE FirstSeen(_, _)
FirstSeen(worklogs, acc) ==
    IF worklogs = <<>> THEN acc
    ELSE FirstSeen(Tail(worklogs),
                   IF Head(worklogs).order_no \in Range(acc) THEN acc
                   ELSE Append(acc, Head(worklogs).order_no))

RECURSIVE ConcatLists(_, _)
ConcatLists(keys, dict) ==
    IF keys = <<>> THEN <<>>
    ELSE dict[Head(keys)] \o ConcatLists(Tail(keys), dict)

\* all_worklogs: the lists of exception_result, then those of normal_result
AllWorklogs(result, worklogs) ==
    LET orders == FirstSeen(worklogs, <<>>)
        IsNf(o) == <<o, ORDER_NO_NOT_FOUND>> \in DOMAIN result.exceptions
        IsEx(o) == <<o, PERFORMANCE_EXCEEDS_QUANTITY>> \in DOMAIN result.exceptions
        IsOk(o) == o \in DOMAIN result.normal
        nf == SelectSeq(orders, IsNf)
        ex == SelectSeq(orders, IsEx)
        idx == ConcatLists([k \in DOMAIN nf |-> <<nf[k], ORDER_NO_NOT_FOUND>>],
                           result.exceptions)
               \o ConcatLists([k \in DOMAIN ex |-> <<ex[k], PERFORMANCE_EXCEEDS_QUANTITY>>],
                              result.exceptions)
               \o ConcatLists(SelectSeq(orders, IsOk), result.normal)
    IN  [k \in DOMAIN idx |-> result.worklogs[idx[k]]]

\* exceptions and normal of the response: under each key, the worklogs of its
\* list, named by id
GroupIds(groups, worklogs) ==
    [key \in DOMAIN groups |-> {worklogs[i].id : i \in Range(groups[key])}]

\* the session of the request after its two queries: it holds the rows read
LoadedSession(rows) ==
    [loaded |-> [id \in {r.id : r \in rows} |-> CHOOSE r \in rows : r.id = id],
     dirty |-> NoRows, new |-> <<>>]

---------------------------------------------------------------------------
(* Spec: requests served one after the other *)

WorklogBatches == SeqsUpTo(ParsedWorklogs, MaxBatch)
ProductionBatches == SeqsUpTo(ProductionModels, MaxBatch)

Init ==
    /\ production_info_list = <<>>
    /\ employee_worklog_list = <<>>
    /\ rc = NoCall
    /\ production_tbl = {}
    /\ worklog_tbl = {}
    /\ ops = 0
    /\ last = NoRequest
    /\ sess = <<>>
    /\ file = NoFile

Idle == UNCHANGED <<production_info_list, employee_worklog_list, rc, sess, file>>

\* parse_and_save_employee_worklog: the parsed list goes to upsert_employee_worklog
UploadWorklog ==
    /\ ops < MaxOps
    /\ \E batch \in WorklogBatches :
        \E tbl \in UpsertEmployeeWorklog(worklog_tbl, NewSession, batch, 0, Clock(ops)) :
            /\ worklog_tbl' = tbl
            /\ last' = [op |-> "upsert_employee_worklog", batch |-> batch,
                        fail_at |-> 0, count |-> Len(batch)]
    /\ ops' = ops + 1
    /\ UNCHANGED production_tbl
    /\ Idle

\* the same call raising at a record or at commit
UploadWorklogFails ==
    /\ ops < MaxOps
    /\ \E batch \in WorklogBatches, fail_at \in 1..MaxBatch + 1 :
        /\ fail_at <= Len(batch) + 1
        /\ \E tbl \in UpsertEmployeeWorklog(worklog_tbl, NewSession, batch, fail_at, Clock(ops)) :
            /\ worklog_tbl' = tbl
            /\ last' = [op |-> "upsert_employee_worklog", batch |-> batch,
                        fail_at |-> fail_at]
    /\ ops' = ops + 1
    /\ UNCHANGED production_tbl
    /\ Idle

\* upsert_production_info, called with a list of records and its own session.
\* (The records the spreadsheet parser builds carry the instant of their
\* construction as upload_date: see SpecParse and SpecFilter.)
UploadProduction ==
    /\ ops < MaxOps
    /\ \E batch \in ProductionBatches :
        \E tbl \in UpsertProductionInfo(production_tbl, NewSession, batch, 0, Clock(ops)) :
            /\ production_tbl' = tbl
            /\ last' = [op |-> "upsert_production_info", batch |-> batch,
                        fail_at |-> 0, count |-> Len(batch)]
    /\ ops' = ops + 1
    /\ UNCHANGED worklog_tbl
    /\ Idle

UploadProductionFails ==
    /\ ops < MaxOps
    /\ \E batch \in ProductionBatches, fail_at \in 1..MaxBatch + 1 :
        /\ fail_at <= Len(batch) + 1
        /\ \E tbl \in UpsertProductionInfo(production_tbl, NewSession, batch, fail_at, Clock(ops)) :
            /\ production_tbl' = tbl
            /\ last' = [op |-> "upsert_production_info", batch |-> batch,
                        fail_at |-> fail_at]
    /\ ops' = ops + 1
    /\ UNCHANGED worklog_tbl
    /\ Idle

\* validate_data with start_date > end_date: ValidationError
ValidateDataRangeError ==
    /\ ops < MaxOps
    /\ \E start, end \in Dates :
        /\ StartAfterEnd(start, end)
        /\ last' = [op |-> "validate_data", status |-> "range_error",
                    start |-> start, end |-> end]
    /\ ops' = ops + 1
    /\ UNCHANGED <<production_tbl, worklog_tbl>>
    /\ Idle

\* validate_data past the range test: query, convert, reconcile, write back
ValidateData ==
    /\ ops < MaxOps
    /\ \E start, end \in Dates :
        /\ ~StartAfterEnd(start, end)
        /\ \E prods \in ListsOf({r \in production_tbl :
                                    InWindow(r.created_at, start, end)}),
              rows \in ListsOf({r \in worklog_tbl :
                                    InWindow(r.work_date, start, end)}) :
            LET models == [i \in DOMAIN rows |-> ToEmployeeWorklog(rows[i])]
                result == ValidateProductionAndWorklog(
                              [i \in DOMAIN prods |-> ToProductionInfo(prods[i])],
                              models)
                all_worklogs == AllWorklogs(result, models)
            IN  IF result.state = "raised"
                THEN /\ last' = [op |-> "validate_data", status |-> "raised",
                                 start |-> start, end |-> end]
                     /\ UNCHANGED worklog_tbl
                ELSE /\ \E tbl \in (IF all_worklogs = <<>> THEN {worklog_tbl}
                                    ELSE UpsertEmployeeWorklog(
                                             worklog_tbl, LoadedSession(Range(rows)),
                                             all_worklogs, 0, Clock(ops))) :
                            worklog_tbl' = tbl
                     /\ last' = [op |-> "validate_data", status |-> "ok",
                                 start |-> start, end |-> end,
                                 verdicts |-> [id \in {r.id : r \in Range(rows)} |->
                                     LET i == CHOOSE k \in DOMAIN rows : rows[k].id = id
                                     IN  result.worklogs[i].validation_result],
                                 exceptions |-> GroupIds(result.exceptions, models),
                                 normal |-> GroupIds(result.normal, models)]
    /\ ops' = ops + 1
    /\ UNCHANGED production_tbl
    /\ Idle

Next ==
    \/ UploadWorklog
    \/ UploadWorklogFails
    \/ UploadProduction
    \/ UploadProductionFails
    \/ ValidateDataRangeError
    \/ ValidateData

Spec == Init /\ [][Next]_vars

---------------------------------------------------------------------------
(* SpecConc: two requests run upsert_employee_worklog at the same time, each
   in its own session, over a one-record list. The database is at READ
   COMMITTED: a query sees the rows committed so far, and db.commit() flushes
   and commits in one step. *)

Calls == {"c1", "c2"}

ConcWorklogs ==
    [order_no : Orders, employee_id : Employees, performance_amount : Amounts,
     work_date : Dates, validation_result : {NOT_VLDED}]

\* the table before the two calls: empty, or the one row an earlier upload left
ConcTables ==
    {{}} \cup UNION {UpsertEmployeeWorklog({}, NewSession, <<w>>, 0, Clock(0)) : w \in ConcWorklogs}

InitConc ==
    /\ production_info_list = <<>>
    /\ employee_worklog_list = <<>>
    /\ rc = NoCall
    /\ production_tbl = {}
    /\ worklog_tbl \in ConcTables
    /\ ops = 0
    /\ last = [op |-> "concurrent", steps |-> <<>>]
    /\ file = NoFile
    /\ sess \in [Calls -> {[pc |-> "query", worklog |-> w, s |-> NewSession] :
                              w \in ConcWorklogs}]

\* db.query(EmployeeWorklogDB).filter(...).first() and the branch it selects,
\* db_utils.py:88-133
ConcQuery(c) ==
    /\ sess[c].pc = "query"
    /\ \E s2 \in StageWorklog(worklog_tbl, sess[c].s, sess[c].worklog, Clock(ops)) :
          sess' = [sess EXCEPT ![c].pc = "commit", ![c].s = s2]
    /\ last' = [last EXCEPT !.steps = Append(@, <<"query", c>>)]
    /\ UNCHANGED <<production_info_list, employee_worklog_list, rc,
                   production_tbl, worklog_tbl, ops, file>>

\* db.commit(), db_utils.py:135
ConcCommit(c) ==
    /\ sess[c].pc = "commit"
    /\ worklog_tbl' = Commit(worklog_tbl, sess[c].s)
    /\ sess' = [sess EXCEPT ![c].pc = "done"]
    /\ last' = [last EXCEPT !.steps = Append(@, <<"commit", c>>)]
    /\ UNCHANGED <<production_info_list, employee_worklog_list, rc,
                   production_tbl, ops, file>>

NextConc == \E c \in Calls : ConcQuery(c) \/ ConcCommit(c)

SpecConc == InitConc /\ [][NextConc]_vars

---------------------------------------------------------------------------
(* SpecRecord: upsert calls served one after the other, each over a list of
   one record, with the rows and records carrying the full set of columns
   that the calls assign *)

MaxCalls == 2

\* the timestamps and values a record brings with it
Stamps == {1, 2}
Values == {1, 2}

\* EmployeeWorklog objects as either caller hands them over
FullWorklogs ==
    {[order_no |-> o, employee_id |-> e, quantity |-> v, performance_factor |-> v,
      performance_amount |-> v, work_date |-> v, upload_date |-> v,
      validation_result |-> IF v = 1 THEN NOT_VLDED ELSE VLD_PASSED,
      created_at |-> t, updated_at |-> t]
        : o \in Orders, e \in Employees, v \in Values, t \in Stamps}

ProductionKeyFields == {"order_no", "model", "brand_no", "job_type", "upload_date"}

\* the key of a first upload and the keys that differ from it in one field
ProductionKeys ==
    {k \in [ProductionKeyFields -> {"a", "b"}] :
        Cardinality({f \in ProductionKeyFields : k[f] = "b"}) <= 1}

\* ProductionInfo objects as the parser builds them
FullProductions ==
    {[order_no |-> k["order_no"], model |-> k["model"], brand_no |-> k["brand_no"],
      job_type |-> k["job_type"], upload_date |-> k["upload_date"],
      quantity |-> q, performance_factor |-> q,
      created_at |-> t, updated_at |-> t]
        : k \in ProductionKeys, q \in Quantities, t \in Stamps}

\* upsert_employee_worklog(db, [w]) on a session of its own
UpsertWorklogRecord ==
    /\ ops < MaxCalls
    /\ \E w \in FullWorklogs :
        \E tbl \in UpsertEmployeeWorklog(worklog_tbl, NewSession, <<w>>, 0, Clock(ops)) :
            /\ worklog_tbl' = tbl
            /\ last' = [op |-> "upsert_employee_worklog", batch |-> <<w>>,
                        fail_at |-> 0, count |-> 1, now |-> Clock(ops)]
    /\ ops' = ops + 1
    /\ UNCHANGED production_tbl
    /\ Idle

\* upsert_production_info(db, [p]) on a session of its own
UpsertProductionRecord ==
    /\ ops < MaxCalls
    /\ \E p \in FullProductions :
        \E tbl \in UpsertProductionInfo(production_tbl, NewSession, <<p>>, 0, Clock(ops)) :
            /\ production_tbl' = tbl
            /\ last' = [op |-> "upsert_production_info", batch |-> <<p>>,
                        fail_at |-> 0, count |-> 1, now |-> Clock(ops)]
    /\ ops' = ops + 1
    /\ UNCHANGED worklog_tbl
    /\ Idle

NextRecord == UpsertWorklogRecord \/ UpsertProductionRecord

SpecRecord == Init /\ [][NextRecord]_vars

---------------------------------------------------------------------------
(* parse_production_excel, parse_util.py:31-137, and the upload of a
   production spreadsheet, upload_service.py:68-93 *)

MaxRows == 2

\* PRODUCTION_INFO_REQUIRED_COLUMNS: the six headers, named here by the fields
\* PRODUCTION_INFO_COLUMN_MAP renames them to
PRODUCTION_INFO_REQUIRED_COLUMNS ==
    <<"order_no", "model", "brand_no", "doc_date", "job_type", "quantity">>

RequiredSet == Range(PRODUCTION_INFO_REQUIRED_COLUMNS)

\* an empty cell, read with dtype=str
NaN == "<NaN>"
None == "<None>"

\* the cells of the quantity column
QuantityCells == {"2", "2.7", "0", "abc", NaN}

\* int(Decimal(str(v))) for the numerals among the cells; Decimal raises for
\* the others
DecimalInt == ("2" :> 2) @@ ("2.7" :> 2) @@ ("0" :> 0)

\* work["quantity"].apply(lambda x: None if pd.isna(x) else str(x).strip())
QuantityText(cell) == IF cell = NaN THEN None ELSE cell

\* ProductionInfo._quantity_positive raises ValueError
QuantityRaises(v) ==
    \/ v = None
    \/ v \notin DOMAIN DecimalInt
    \/ DecimalInt[v] <= 0

\* ProductionInfo._strip_str
StripStr == ("P1" :> "P1") @@ (" P9" :> "P9") @@ ("M1" :> "M1")
            @@ ("B1" :> "B1") @@ ("J1 " :> "J1") @@ ("" :> "")

\* A datetime is written yyyymmdd; NoDatetime is Python's None where a
\* datetime is expected
NoDatetime == 0
Year(dt) == dt \div 10000
Month(dt) == (dt \div 100) % 100

\* datetime.strptime(text, fmt) for fmt in ("%Y/%m/%d", "%Y-%m-%d",
\* "%Y.%m.%d"), for the date texts among the cells
ToDatetime ==
    ("2025/10/1" :> 20251001) @@ ("2025-09-03" :> 20250903)
    @@ ("2024.09.05" :> 20240905)

\* _to_datetime(value): a text in one of the three formats gives its
\* datetime; any other text (a date followed by a time, the "nan" of an empty
\* cell read with dtype=str) gives None
ToDatetimeOrNone(value) ==
    IF value \in DOMAIN ToDatetime THEN ToDatetime[value] ELSE NoDatetime

\* ProductionInfo._dt_to_naive, the "before" validator of upload_date,
\* created_at and updated_at: None becomes datetime.now(), a naive datetime
\* stays
DtToNaive(v, now) == IF v = NoDatetime THEN now ELSE v

\* the same validator on date.today(): a date is none of the types
\* _to_naive_datetime tests for, and its last line returns datetime.now()
DateToNaive(today, now) == now

\* the cells of the document-date column
DocDateCells ==
    {"2025/10/1", "2025-09-03", "2024.09.05", "2025-09-03 00:00:00", NaN}

\* the rows of a sheet, a cell under each of the six headers
RawRows ==
    [order_no : {"P1", " P9"}, model : {"M1"}, brand_no : {"B1"},
     doc_date : {"2025/10/1"}, job_type : {"J1 "}, quantity : QuantityCells]

\* rows that differ in the document date and the quantity
DatedRows ==
    [order_no : {"P1"}, model : {"M1"}, brand_no : {"B1"},
     doc_date : DocDateCells, job_type : {"J1 "}, quantity : {"2", "abc"}]

\* a sheet: the headers it has and, for each row, the cells under them
ProductionFiles ==
    {[kind |-> "production", columns |-> cs,
      rows |-> [i \in DOMAIN rs |-> [c \in cs |-> rs[i][c]]]]
        : cs \in SUBSET RequiredSet, rs \in SeqsUpTo(RawRows, MaxRows)}

\* sheets with the six headers
DatedFiles ==
    {[kind |-> "production", columns |-> RequiredSet, rows |-> rs]
        : rs \in SeqsUpTo(DatedRows, MaxRows)}

\* missing = [c for c in PRODUCTION_INFO_REQUIRED_COLUMNS if c not in df.columns]
MissingColumns_QuantityOnly(f) ==
    LET Absent(c) == c = "quantity" /\ c \notin f.columns
    IN  SelectSeq(PRODUCTION_INFO_REQUIRED_COLUMNS, Absent)

MissingColumns(f) ==
    LET Absent(c) == c \notin f.columns
    IN  SelectSeq(PRODUCTION_INFO_REQUIRED_COLUMNS, Absent)

\* The filter_month argument: not given (None), or a text, written as the
\* sequence of its characters
NoFilter == [given |-> FALSE, text |-> <<>>]
FilterText(chars) == [given |-> TRUE, text |-> chars]

FilterMonths ==
    {NoFilter,
     FilterText(<<"2", "0", "2", "5", "0", "9">>),
     FilterText(<<"2", "0", "2", "5", "1", "0">>),
     FilterText(<<"2", "0", "2", "5", "9">>),
     FilterText(<<"2", "0", "2", "5", "a", "b">>),
     FilterText(<<"2", "0", "2", "5", "1", "3">>),
     FilterText(<<"2", "0", "2", "5", "0", "0">>),
     FilterText(<<"2", "0", "2", "5", " ", "9">>)}

\* int(text) of Python: blanks around the numeral are ignored, a sign may lead
\* it, and single underscores may separate its digits; anything else raises
\* ValueError
Digit ==
    ("0" :> 0) @@ ("1" :> 1) @@ ("2" :> 2) @@ ("3" :> 3) @@ ("4" :> 4)
    @@ ("5" :> 5) @@ ("6" :> 6) @@ ("7" :> 7) @@ ("8" :> 8) @@ ("9" :> 9)

RECURSIVE LStrip(_)
LStrip(s) == IF s # <<>> /\ Head(s) = " " THEN LStrip(Tail(s)) ELSE s

Strip(s) == Reverse(LStrip(Reverse(LStrip(s))))

IsNumeral(s) ==
    /\ s # <<>>
    /\ \A i \in DOMAIN s :
        \/ s[i] \in DOMAIN Digit
        \/ /\ s[i] = "_"
           /\ 1 < i /\ i < Len(s)
           /\ s[i - 1] \in DOMAIN Digit /\ s[i + 1] \in DOMAIN Digit

RECURSIVE NumeralValue(_, _)
NumeralValue(s, acc) ==
    IF s = <<>> THEN acc
    ELSE IF Head(s) = "_" THEN NumeralValue(Tail(s), acc)
    ELSE NumeralValue(Tail(s), 10 * acc + Digit[Head(s)])

PyInt(s) ==
    LET t == Strip(s)
        signed == t # <<>> /\ Head(t) \in {"+", "-"}
        body == IF signed THEN Tail(t) ELSE t
    IN  IF ~IsNumeral(body) THEN [ok |-> FALSE, value |-> 0]
        ELSE [ok |-> TRUE,
              value |-> IF signed /\ Head(t) = "-" THEN 0 - NumeralValue(body, 0)
                        ELSE NumeralValue(body, 0)]

\* parse_util.py:81-96: filter_year and filter_month_num, or ValueError
ParseFilterMonth(filter_month) ==
    LET raised == [state |-> "raised", year |-> 0, month |-> 0]
    IN  IF ~filter_month.given THEN [state |-> "none", year |-> 0, month |-> 0]
        ELSE IF Len(filter_month.text) # 6 THEN raised
        ELSE LET filter_year == PyInt(SubSeq(filter_month.text, 1, 4))
                 filter_month_num == PyInt(SubSeq(filter_month.text, 5, 6))
             IN  IF ~filter_year.ok \/ ~filter_month_num.ok THEN raised
                 ELSE IF ~(1 <= filter_month_num.value
                           /\ filter_month_num.value <= 12)
                 THEN raised
                 ELSE [state |-> "ok", year |-> filter_year.value,
                       month |-> filter_month_num.value]

\* parse_util.py:106-117: with a filter, a row without a datetime or of
\* another year or month is skipped
SkippedByFilter_MonthOnly(doc_datetime, flt) ==
    /\ flt.state = "ok"
    /\ \/ doc_datetime = NoDatetime
       \/ Month(doc_datetime) # flt.month

SkippedByFilter(doc_datetime, flt) ==
    /\ flt.state = "ok"
    /\ \/ doc_datetime = NoDatetime
       \/ Year(doc_datetime) # flt.year
       \/ Month(doc_datetime) # flt.month

\* row.get(column, default)
Cell(row, c, default) == IF c \in DOMAIN row THEN row[c] ELSE default

\* payload and ProductionInfo(**payload) for one row, parse_util.py:120-134
RowRaises(row) == QuantityRaises(QuantityText(Cell(row, "quantity", NaN)))

\* The validators run in the order of the fields: upload_date and created_at
\* read the clock at now, updated_at at later (the same instant or the next)
RowRecord(row, now, later) ==
    LET doc_datetime == ToDatetimeOrNone(Cell(row, "doc_date", None))
    IN  [order_no |-> StripStr[Cell(row, "order_no", "")],
         model |-> StripStr[Cell(row, "model", "")],
         brand_no |-> StripStr[Cell(row, "brand_no", "")],
         job_type |-> StripStr[Cell(row, "job_type", "")],
         quantity |-> DecimalInt[QuantityText(Cell(row, "quantity", NaN))],
         performance_factor |-> 1,
         upload_date |-> DateToNaive("today", now),
         created_at |-> DtToNaive(doc_datetime, now),
         updated_at |-> DtToNaive(doc_datetime, later)]

ParseRaised(error, where, missing) ==
    [state |-> "raised", error |-> error, where |-> where, missing |-> missing,
     results |-> <<>>]

\* for _, row in work.iterrows(): ... results.append(obj); an exception of
\* ProductionInfo(...) leaves the loop and the function
RECURSIVE ParseRows(_, _, _, _, _)
ParseRows(rows, flt, now, later, results) ==
    IF rows = <<>>
    THEN [state |-> "returned", error |-> "none", where |-> "none",
          missing |-> <<>>, results |-> results]
    ELSE IF SkippedByFilter(ToDatetimeOrNone(Cell(Head(rows), "doc_date", None)), flt)
    THEN ParseRows(Tail(rows), flt, now, later, results)
    ELSE IF RowRaises(Head(rows))
    THEN ParseRaised("ValidationError", "row", <<>>)
    ELSE ParseRows(Tail(rows), flt, now, later,
                   Append(results, RowRecord(Head(rows), now, later)))

\* parse_production_excel(excel_path, filter_month=filter_month)
ParseProductionExcel(f, filter_month, now, later) ==
    IF MissingColumns(f) # <<>>
    THEN ParseRaised("ValueError", "columns", MissingColumns(f))
    ELSE IF ParseFilterMonth(filter_month).state = "raised"
    THEN ParseRaised("ValueError", "filter_month", <<>>)
    ELSE ParseRows(f.rows, ParseFilterMonth(filter_month), now, later, <<>>)

\* the table an earlier upload of one row left
SeedFile ==
    [kind |-> "production", columns |-> RequiredSet,
     rows |-> <<[order_no |-> "P1", model |-> "M1", brand_no |-> "B1",
                 doc_date |-> "2025/10/1", job_type |-> "J1 ", quantity |-> "2"]>>]

ParseTables ==
    {{}} \cup UpsertProductionInfo({}, NewSession,
                 ParseProductionExcel(SeedFile, NoFilter, 1, 1).results, 0, 2)

InitParse ==
    /\ production_info_list = <<>>
    /\ employee_worklog_list = <<>>
    /\ rc = NoCall
    /\ production_tbl \in ParseTables
    /\ worklog_tbl = {}
    /\ ops = 0
    /\ last = NoRequest
    /\ sess = <<>>
    /\ file \in ProductionFiles

\* two readings of the clock in a row give the same instant or the next
Ticks == {0, 1}

\* UploadService.parse_and_save_production_info: parse, then upsert; any
\* exception becomes FileUploadError carrying str(e). The request number
\* ops + 1 reads the clock from 2 * Clock(ops) on.
ParseAndSave(filters, uploads) ==
    /\ ops < uploads
    /\ \E filter_month \in filters, tick \in Ticks :
        LET now == 2 * Clock(ops)
            parsed == ParseProductionExcel(file, filter_month, now, now + tick)
        IN  IF parsed.state = "raised"
            THEN /\ production_tbl' = CloseSession(production_tbl, NewSession)
                 /\ last' = [op |-> "parse_and_save_production_info",
                             filter_month |-> filter_month, now |-> now,
                             status |-> "FileUploadError", cause |-> parsed.error,
                             where |-> parsed.where,
                             missing |-> parsed.missing, records |-> <<>>, count |-> 0]
            ELSE \E tbl \in UpsertProductionInfo(production_tbl, NewSession,
                                                 parsed.results, 0, now + 1) :
                    /\ production_tbl' = tbl
                    /\ last' = [op |-> "parse_and_save_production_info",
                                filter_month |-> filter_month, now |-> now,
                                status |-> "ok", cause |-> "none", where |-> "none",
                                missing |-> <<>>,
                                records |-> parsed.results,
                                count |-> Len(parsed.results)]
    /\ ops' = ops + 1
    /\ UNCHANGED worklog_tbl
    /\ Idle

\* one upload without filter_month
ParseAndSaveProductionInfo == ParseAndSave({NoFilter}, 1)

NextParse == ParseAndSaveProductionInfo

SpecParse == InitParse /\ [][NextParse]_vars

---------------------------------------------------------------------------
(* SpecFilter: uploads of one production spreadsheet with the six columns,
   each with a filter_month of its own, into an empty table *)

MaxUploads == 2

InitFilter ==
    /\ production_info_list = <<>>
    /\ employee_worklog_list = <<>>
    /\ rc = NoCall
    /\ production_tbl = {}
    /\ worklog_tbl = {}
    /\ ops = 0
    /\ last = NoRequest
    /\ sess = <<>>
    /\ file \in DatedFiles

NextFilter == ParseAndSave(FilterMonths, MaxUploads)

SpecFilter == InitFilter /\ [][NextFilter]_vars

---------------------------------------------------------------------------
(* parse_sheet, parse_util.py:223-308, and the upload of a worklog workbook,
   upload_service.py:95-117 *)

\* A cell as ws.iter_rows(values_only=True) gives it: None, a str (s), an int
\* (n), a float (n tenths) or a datetime (n, written yyyymmdd)
NoneCell == [t |-> "none", n |-> 0, s |-> ""]
StrCell(s) == [t |-> "str", n |-> 0, s |-> s]
IntCell(n) == [t |-> "int", n |-> n, s |-> ""]
FloatCell(tenths) == [t |-> "float", n |-> tenths, s |-> ""]
DatetimeCell(d) == [t |-> "datetime", n |-> d, s |-> ""]

\* A Python float: NaN, or a number of tenths
NaNValue == [nan |-> TRUE, tenths |-> 0]
FloatValue(tenths) == [nan |-> FALSE, tenths |-> tenths]

\* x <= 0 and x > 0 on floats: every comparison with NaN is False
FloatLE0(x) == ~x.nan /\ x.tenths <= 0
FloatGT0(x) == ~x.nan /\ x.tenths > 0

\* An Optional[int] or Optional[float] is written [some, value]: None has
\* some = FALSE

\* int(text.strip()) and float(text.strip()) for the texts among the cells;
\* they raise ValueError for the others. float("nan") is NaN.
IntOfText == (" 3 " :> 3) @@ ("0" :> 0)

FloatOfText ==
    (" 3 " :> FloatValue(30)) @@ ("0" :> FloatValue(0))
    @@ ("2.5" :> FloatValue(25)) @@ ("nan" :> NaNValue)

\* int(value) of a float: towards zero
TruncTenths(n) == IF n >= 0 THEN n \div 10 ELSE 0 - ((0 - n) \div 10)

\* str(value) of a number, for the numbers among the order cells
StrOfInt == (7 :> "7")
StrOfFloat == (25 :> "2.5")

\* text.strip()
StripText ==
    ("P1" :> "P1") @@ (" P9 " :> "P9") @@ (" " :> "") @@ ("" :> "")
    @@ ("E1" :> "E1")

\* _to_order_no, parse_util.py:152-163
ToOrderNo(value) ==
    IF value.t = "none" THEN ""
    ELSE IF value.t = "int" THEN StrOfInt[value.n]
    ELSE IF value.t = "float"
    THEN IF value.n % 10 = 0 THEN StrOfInt[TruncTenths(value.n)]
         ELSE StrOfFloat[value.n]
    ELSE StripText[value.s]

\* _to_int, parse_util.py:166-176
ToInt(value) ==
    IF value.t = "none" \/ (value.t = "str" /\ value.s = "")
    THEN [some |-> FALSE, value |-> 0]
    ELSE IF value.t = "int" THEN [some |-> TRUE, value |-> value.n]
    ELSE IF value.t = "float" THEN [some |-> TRUE, value |-> TruncTenths(value.n)]
    ELSE IF value.t = "str" /\ value.s \in DOMAIN IntOfText
    THEN [some |-> TRUE, value |-> IntOfText[value.s]]
    ELSE [some |-> FALSE, value |-> 0]

\* _to_float, parse_util.py:179-187
ToFloat(value) ==
    IF value.t = "none" \/ (value.t = "str" /\ value.s = "")
    THEN [some |-> FALSE, value |-> FloatValue(0)]
    ELSE IF value.t = "int" THEN [some |-> TRUE, value |-> FloatValue(10 * value.n)]
    ELSE IF value.t = "float" THEN [some |-> TRUE, value |-> FloatValue(value.n)]
    ELSE IF value.t = "str" /\ value.s \in DOMAIN FloatOfText
    THEN [some |-> TRUE, value |-> FloatOfText[value.s]]
    ELSE [some |-> FALSE, value |-> FloatValue(0)]

\* _to_datetime on a cell of a worksheet: a datetime stays, a text goes
\* through the three formats, str() of a number is no date
ToDatetimeOfCell(value) ==
    IF value.t = "none" \/ (value.t = "str" /\ value.s = "") THEN NoDatetime
    ELSE IF value.t = "datetime" THEN value.n
    ELSE IF value.t = "str" THEN ToDatetimeOrNone(value.s)
    ELSE NoDatetime

\* WORKLOG_HEADER_TITLES that parse_sheet reads, named by the fields they feed
WorklogTitles == {"order_no", "work_date", "quantity", "performance_factor",
                  "performance_amount"}

\* the cells of each column
OrderCells ==
    {StrCell("P1"), StrCell(" P9 "), StrCell(" "), NoneCell, IntCell(7),
     FloatCell(70), FloatCell(25)}
WorkDateCells ==
    {DatetimeCell(20251001), StrCell("2025/10/1"), StrCell("2025-09-03 00:00:00"),
     NoneCell, StrCell(""), IntCell(7)}
NumberCells ==
    {IntCell(2), IntCell(0), IntCell(0 - 1), FloatCell(27), FloatCell(5),
     FloatCell(0), FloatCell(0 - 10), StrCell(" 3 "), StrCell("2.5"),
     StrCell("0"), StrCell("abc"), StrCell("nan"), StrCell(""), NoneCell}

\* a row that gives a record
GoodRow ==
    [order_no |-> StrCell("P1"), work_date |-> DatetimeCell(20251001),
     quantity |-> IntCell(2), performance_factor |-> FloatCell(15),
     performance_amount |-> FloatCell(25)]

\* the rows under the header: the good row with any cell in one column
SheetRows ==
    {[GoodRow EXCEPT !.order_no = c] : c \in OrderCells}
    \cup {[GoodRow EXCEPT !.work_date = c] : c \in WorkDateCells}
    \cup {[GoodRow EXCEPT !.quantity = c] : c \in NumberCells}
    \cup {[GoodRow EXCEPT !.performance_factor = c] : c \in NumberCells}
    \cup {[GoodRow EXCEPT !.performance_amount = c] : c \in NumberCells}

\* the titles a header row has
HeaderSets ==
    {WorklogTitles, WorklogTitles \ {"performance_factor"},
     WorklogTitles \ {"quantity"}}

\* a workbook of one sheet, named after the employee: the titles of its
\* header row and the rows below it
WorklogFiles ==
    {[kind |-> "worklog", sheet_name |-> "E1", header |-> h, rows |-> rs]
        : h \in HeaderSets, rs \in SeqsUpTo(SheetRows, MaxRows)}

\* row[idx] if idx is not None else None
CellAt(header, row, title) == IF title \in header THEN row[title] ELSE NoneCell

\* if all(c is None or str(c).strip() == "" for c in row): continue
EmptyRow(row) ==
    \A title \in DOMAIN row :
        \/ row[title].t = "none"
        \/ /\ row[title].t = "str"
           /\ row[title].s \in DOMAIN StripText
           /\ StripText[row[title].s] = ""

\* if quantity is None or quantity <= 0: quantity = 1
QuantityOrDefault(quantity) ==
    IF ~quantity.some \/ quantity.value <= 0 THEN 1 ELSE quantity.value

\* if perf_factor is None or perf_factor <= 0: perf_factor = 1.0
FactorOrDefault(perf_factor) ==
    IF ~perf_factor.some \/ FloatLE0(perf_factor.value) THEN FloatValue(10)
    ELSE perf_factor.value

\* if perf_amount is None or perf_amount <= 0: continue
AmountRejected_NegativeOnly(perf_amount) ==
    ~perf_amount.some \/ (~perf_amount.value.nan /\ perf_amount.value.tenths < 0)

AmountRejected(perf_amount) == ~perf_amount.some \/ FloatLE0(perf_amount.value)

\* the validators of EmployeeWorklog raise ValueError for a value <= 0
WorklogRaises(quantity, perf_factor, perf_amount) ==
    quantity <= 0 \/ FloatLE0(perf_factor) \/ FloatLE0(perf_amount)

\* EmployeeWorklog(order_no=..., ...), parse_util.py:294-305; the fields left
\* out take their defaults
SheetRecord(order_no, employee_id, quantity, perf_factor, perf_amount, work_date) ==
    [order_no |-> order_no, employee_id |-> StripText[employee_id],
     job_type |-> "unknown", quantity |-> quantity,
     performance_factor |-> perf_factor, performance_amount |-> perf_amount,
     work_date |-> work_date, validation_result |-> NOT_VLDED]

\* the loop of parse_sheet over the rows below the header
RECURSIVE ParseSheetRows(_, _, _, _)
ParseSheetRows(header, rows, employee_id, worklogs) ==
    IF rows = <<>> THEN [state |-> "returned", results |-> worklogs]
    ELSE LET row == Head(rows)
             order_no == ToOrderNo(CellAt(header, row, "order_no"))
             work_date == ToDatetimeOfCell(CellAt(header, row, "work_date"))
             quantity == QuantityOrDefault(ToInt(CellAt(header, row, "quantity")))
             perf_factor ==
                 FactorOrDefault(ToFloat(CellAt(header, row, "performance_factor")))
             perf_amount == ToFloat(CellAt(header, row, "performance_amount"))
         IN  IF \/ EmptyRow(row)
                \/ order_no = ""
                \/ work_date = NoDatetime
                \/ AmountRejected(perf_amount)
             THEN ParseSheetRows(header, Tail(rows), employee_id, worklogs)
             ELSE IF WorklogRaises(quantity, perf_factor, perf_amount.value)
             THEN [state |-> "raised", results |-> <<>>]
             ELSE ParseSheetRows(header, Tail(rows), employee_id,
                      Append(worklogs,
                             SheetRecord(order_no, employee_id, quantity,
                                         perf_factor, perf_amount.value, work_date)))

\* parse_employee_worklogs_from_excel for a workbook of one sheet
ParseEmployeeWorklogsFromExcel(f) ==
    ParseSheetRows(f.header, f.rows, f.sheet_name, <<>>)

InitSheet ==
    /\ production_info_list = <<>>
    /\ employee_worklog_list = <<>>
    /\ rc = NoCall
    /\ production_tbl = {}
    /\ worklog_tbl = {}
    /\ ops = 0
    /\ last = NoRequest
    /\ sess = <<>>
    /\ file \in WorklogFiles

\* UploadService.parse_and_save_employee_worklog: parse, then upsert; any
\* exception becomes FileUploadError
ParseAndSaveEmployeeWorklog ==
    /\ ops < 1
    /\ LET parsed == ParseEmployeeWorklogsFromExcel(file)
       IN  IF parsed.state = "raised"
           THEN /\ worklog_tbl' = CloseSession(worklog_tbl, NewSession)
                /\ last' = [op |-> "parse_and_save_employee_worklog",
                            status |-> "FileUploadError", records |-> <<>>,
                            count |-> 0]
           ELSE \E tbl \in UpsertEmployeeWorklog(worklog_tbl, NewSession,
                                                 parsed.results, 0, Clock(ops)) :
                   /\ worklog_tbl' = tbl
                   /\ last' = [op |-> "parse_and_save_employee_worklog",
                               status |-> "ok", records |-> parsed.results,
                               count |-> Len(parsed.results)]
    /\ ops' = ops + 1
    /\ UNCHANGED production_tbl
    /\ Idle

NextSheet == ParseAndSaveEmployeeWorklog

SpecSheet == InitSheet /\ [][NextSheet]_vars

---------------------------------------------------------------------------
(* Claims about the upsert store and the check run, under Spec *)

IsUpsert(req) == req.op \in {"upsert_employee_worklog", "upsert_production_info"}

\* the field values of a table, row ids aside, each with its number of rows
StripId(r) == [f \in DOMAIN r \ {"id"} |-> r[f]]
FieldValues(tbl) ==
    [v \in {StripId(r) : r \in tbl} |-> Cardinality({r \in tbl : StripId(r) = v})]

\* C6: an upsert call that follows a successful call of the same function
\* with the same record list leaves the number of rows and their field values
\* as the first call left them (updated_at is not modelled).
C6_UpsertIdempotent ==
    [][(/\ ops' = ops + 1
        /\ IsUpsert(last) /\ last.fail_at = 0
        /\ IsUpsert(last') /\ last'.fail_at = 0
        /\ last'.op = last.op /\ last'.batch = last.batch)
       => /\ FieldValues(worklog_tbl') = FieldValues(worklog_tbl)
          /\ FieldValues(production_tbl') = FieldValues(production_tbl)]_vars

\* C7: no two persisted worklog rows share (order_no, employee_id) and no two
\* persisted production rows share (order_no, model, brand_no, job_type,
\* upload_date).
C7_DedupKeyUnique ==
    /\ \A r1, r2 \in worklog_tbl : SameWorklogKey(r1, r2) => r1 = r2
    /\ \A r1, r2 \in production_tbl : SameProductionKey(r1, r2) => r1 = r2

\* C8: an upsert call that raises, at a record or at commit, leaves both
\* tables as they were before the call.
C8_FailedUpsertLeavesTables ==
    [][(ops' = ops + 1 /\ IsUpsert(last') /\ last'.fail_at # 0)
       => (worklog_tbl' = worklog_tbl /\ production_tbl' = production_tbl)]_vars

\* a call over a non-empty table that fails at commit, after it has staged
\* an update of a persisted row and an insert
C8_Witness ==
    /\ last.op = "upsert_employee_worklog"
    /\ Len(last.batch) = 2
    /\ last.fail_at = Len(last.batch) + 1
    /\ \E r \in worklog_tbl :
          /\ SameWorklogKey(r, last.batch[1])
          /\ r.work_date # last.batch[1].work_date
    /\ \A r \in worklog_tbl : ~SameWorklogKey(r, last.batch[2])

\* C10: after a check run over [start, end] that completes, every persisted
\* worklog row with work_date in [start, end] carries the verdict the run
\* returned for that record.
C10_WindowRowsCarryVerdict ==
    (last.op = "validate_data" /\ last.status = "ok") =>
        \A r \in worklog_tbl :
            InWindow(r.work_date, last.start, last.end) =>
                /\ r.id \in DOMAIN last.verdicts
                /\ r.validation_result = last.verdicts[r.id]

\* C9: when two upsert_employee_worklog calls carrying a record with the same
\* (order_no, employee_id) have both queried before either commits, both
\* complete, and every persisted row of that key holds the values of the
\* record of the call that committed last.
C9_LastWriterWins ==
    (/\ last.op = "concurrent"
     /\ Len(last.steps) = 4
     /\ last.steps[1][1] = "query" /\ last.steps[2][1] = "query"
     /\ SameWorklogKey(sess["c1"].worklog, sess["c2"].worklog))
    => LET w == sess[last.steps[4][2]].worklog
       IN  /\ \A c \in Calls : sess[c].pc = "done"
           /\ \E r \in worklog_tbl : SameWorklogKey(r, w)
           /\ \A r \in worklog_tbl :
                 SameWorklogKey(r, w) => StripId(r) = NewWorklogRow(w)

\* C13: every check run gets past the classification pass: the call of
\* validate_production_and_worklog on the lists built from the rows of the
\* window returns and does not raise.
C13_ReconcileReturns ==
    last.op = "validate_data" => last.status # "raised"

\* C14: a check run with start > end ends in the range error and leaves both
\* tables as they were; a run with start <= end, start = end included, does
\* not end in the range error.
C14_RangeErrorBeforeAnything ==
    [][(ops' = ops + 1 /\ last'.op = "validate_data") =>
          IF last'.start > last'.end
          THEN /\ last'.status = "range_error"
               /\ worklog_tbl' = worklog_tbl
               /\ production_tbl' = production_tbl
          ELSE last'.status # "range_error"]_vars

\* a rejected run over tables that hold a production row and a worklog row
\* not yet validated
C14_Witness ==
    /\ last.op = "validate_data"
    /\ last.status = "range_error"
    /\ last.start > last.end
    /\ production_tbl # {}
    /\ \E r \in worklog_tbl : r.validation_result = NOT_VLDED
---------------------------------------------------------------------------
(* Claims about one record of an upsert call, under SpecRecord *)

WorklogCall == ops' = ops + 1 /\ last'.op = "upsert_employee_worklog"
ProductionCall == ops' = ops + 1 /\ last'.op = "upsert_production_info"

\* the persisted worklog rows with the (order_no, employee_id) of the record
WorklogMatches(w) ==
    {r \in worklog_tbl : r.order_no = w.order_no /\ r.employee_id = w.employee_id}

\* the persisted production rows equal to the record in all five key fields
ProductionMatches(p) ==
    {r \in production_tbl : \A f \in ProductionKeyFields : r[f] = p[f]}

Ids(tbl) == {r.id : r \in tbl}
RowOf(tbl, id) == CHOOSE r \in tbl : r.id = id

\* C15: a call of upsert_employee_worklog over one record whose
\* (order_no, employee_id) matches a persisted row adds no row and leaves that
\* row with the record's quantity, performance_factor, performance_amount,
\* work_date, upload_date and validation_result, the other rows as they were;
\* with no matching row it adds exactly one row, which holds the record's
\* values.
C15_MatchOverwritesElseInserts ==
    [][WorklogCall =>
        LET w == last'.batch[1]
            fields == {"quantity", "performance_factor", "performance_amount",
                       "work_date", "upload_date", "validation_result"}
        IN  IF WorklogMatches(w) # {}
            THEN /\ Ids(worklog_tbl') = Ids(worklog_tbl)
                 /\ Cardinality(worklog_tbl') = Cardinality(worklog_tbl)
                 /\ \E m \in WorklogMatches(w) :
                       /\ \A f \in fields : RowOf(worklog_tbl', m.id)[f] = w[f]
                       /\ worklog_tbl \ {m} \subseteq worklog_tbl'
            ELSE /\ worklog_tbl \subseteq worklog_tbl'
                 /\ Cardinality(worklog_tbl') = Cardinality(worklog_tbl) + 1
                 /\ \A r \in worklog_tbl' \ worklog_tbl :
                       \A f \in fields \cup {"order_no", "employee_id"} : r[f] = w[f]]_vars

\* a second call for a persisted (order_no, employee_id): the table still
\* holds the one row, inserted by a record with other timestamps, and the row
\* holds the values of the second record
C15_Witness ==
    /\ last.op = "upsert_employee_worklog"
    /\ ops = 2
    /\ Cardinality(worklog_tbl) = 1
    /\ \E r \in worklog_tbl :
          /\ r.created_at # last.batch[1].created_at
          /\ r.updated_at = last.now
          /\ r.order_no = last.batch[1].order_no
          /\ r.employee_id = last.batch[1].employee_id
          /\ r.work_date = last.batch[1].work_date
          /\ r.validation_result = last.batch[1].validation_result
          /\ r.quantity = last.batch[1].quantity

\* C16: a call of upsert_production_info over one record changes a persisted
\* row only if the row equals the record in all five of order_no, model,
\* brand_no, job_type and upload_date; a record that differs from every
\* persisted row in at least one of them adds one row with its values and
\* leaves every persisted row as it was.
C16_FiveFieldKey ==
    [][ProductionCall =>
        LET p == last'.batch[1]
        IN  /\ \A r \in production_tbl : r \notin ProductionMatches(p) => r \in production_tbl'
            /\ IF ProductionMatches(p) # {}
               THEN /\ Ids(production_tbl') = Ids(production_tbl)
                    /\ \E m \in ProductionMatches(p) :
                          RowOf(production_tbl', m.id).quantity = p.quantity
               ELSE /\ production_tbl \subseteq production_tbl'
                    /\ Cardinality(production_tbl') = Cardinality(production_tbl) + 1
                    /\ \A r \in production_tbl' \ production_tbl :
                          /\ \A f \in ProductionKeyFields : r[f] = p[f]
                          /\ r.quantity = p.quantity]_vars

\* two persisted rows that agree in four key fields and differ in one, the
\* second added by the last call beside the untouched first
C16_Witness ==
    /\ last.op = "upsert_production_info"
    /\ \E r1, r2 \in production_tbl :
          /\ Cardinality({f \in ProductionKeyFields : r1[f] # r2[f]}) = 1
          /\ \A f \in ProductionKeyFields : r2[f] = last.batch[1][f]
          /\ r1.quantity # r2.quantity
          /\ r1.id < r2.id

\* C17: on a match the row's updated_at becomes the time of the call and its
\* id and created_at stay as they were; with no match the added row carries
\* the record's own created_at and updated_at. For both upsert functions.
C17_Timestamps ==
    [][(WorklogCall \/ ProductionCall) =>
        LET rec == last'.batch[1]
            old == IF last'.op = "upsert_employee_worklog"
                   THEN worklog_tbl ELSE production_tbl
            new == IF last'.op = "upsert_employee_worklog"
                   THEN worklog_tbl' ELSE production_tbl'
            matches == IF last'.op = "upsert_employee_worklog"
                       THEN WorklogMatches(rec) ELSE ProductionMatches(rec)
        IN  IF matches # {}
            THEN \E m \in matches :
                    /\ m.id \in Ids(new)
                    /\ RowOf(new, m.id).updated_at = last'.now
                    /\ RowOf(new, m.id).created_at = m.created_at
            ELSE \A r \in new \ old :
                    /\ r.created_at = rec.created_at
                    /\ r.updated_at = rec.updated_at]_vars

\* a row inserted with the timestamps of its record and later matched by a
\* record with other timestamps: created_at is the first record's, updated_at
\* the time of the second call
C17_Witness ==
    /\ last.op = "upsert_production_info"
    /\ ops = 2
    /\ \E r \in production_tbl :
          /\ \A f \in ProductionKeyFields : r[f] = last.batch[1][f]
          /\ r.created_at # last.batch[1].created_at
          /\ r.updated_at = last.now
          /\ r.updated_at # last.batch[1].updated_at

CheckRun == ops' = ops + 1 /\ last'.op = "validate_data"

\* C28: a check run over [start, end] leaves every worklog row whose
\* work_date lies outside the window as it was, in every field, takes no such
\* row among the worklogs it classifies, and leaves the production table as
\* it was.
C28_RunLeavesRowsOutsideWindow ==
    [][CheckRun =>
          /\ production_tbl' = production_tbl
          /\ \A r \in worklog_tbl :
                ~InWindow(r.work_date, last'.start, last'.end) =>
                    /\ r \in worklog_tbl'
                    /\ last'.status = "ok" => r.id \notin DOMAIN last'.verdicts]_vars

\* C29: a check run that follows a check run over the same window returns the
\* same exceptions and normal groupings, and leaves on every worklog row the
\* validation_result the first run left.
C29_SecondRunSameResult ==
    [][(/\ CheckRun
        /\ last.op = "validate_data"
        /\ last.status = "ok" /\ last'.status = "ok"
        /\ last'.start = last.start /\ last'.end = last.end) =>
          /\ last'.exceptions = last.exceptions
          /\ last'.normal = last.normal
          /\ \A r \in worklog_tbl : \E r2 \in worklog_tbl' :
                r2.id = r.id /\ r2.validation_result = r.validation_result]_vars

\* C30: an upload sets every persisted row that has the (order_no,
\* employee_id) of one of its records to not-validated, and a not-validated
\* row takes another verdict only in a check run whose window contains its
\* work_date.
C30_UploadResetsVerdict ==
    [][/\ (/\ ops' = ops + 1
           /\ last'.op = "upsert_employee_worklog"
           /\ last'.fail_at = 0) =>
              \A k \in DOMAIN last'.batch : \A r \in worklog_tbl' :
                  SameWorklogKey(r, last'.batch[k]) =>
                      r.validation_result = NOT_VLDED
       /\ \A r \in worklog_tbl : \A r2 \in worklog_tbl' :
              (/\ r2.id = r.id
               /\ r.validation_result = NOT_VLDED
               /\ r2.validation_result # NOT_VLDED) =>
                  /\ last'.op = "validate_data"
                  /\ InWindow(r.work_date, last'.start, last'.end)]_vars

---------------------------------------------------------------------------
(* Claims about the upload of a production spreadsheet, under SpecParse *)

ParseCall == ops' = ops + 1 /\ last'.op = "parse_and_save_production_info"

\* the rows of the sheet whose quantity cell is a numeral with a positive
\* whole part
ValidRows ==
    {i \in DOMAIN file.rows :
        /\ "quantity" \in DOMAIN file.rows[i]
        /\ file.rows[i].quantity \in {"2", "2.7"}}

\* C19: the upload of a sheet that lacks any of the six required columns
\* fails, its error names exactly the missing columns, no record is parsed
\* and the production table stays as it was.
C19_MissingColumnsAbortUpload ==
    [][(ParseCall /\ RequiredSet \ file.columns # {}) =>
          /\ last'.status = "FileUploadError"
          /\ last'.cause = "ValueError"
          /\ Range(last'.missing) = RequiredSet \ file.columns
          /\ last'.records = <<>> /\ last'.count = 0
          /\ production_tbl' = production_tbl]_vars

\* a failed upload of a sheet that lacks two columns other than quantity and
\* whose rows all have a valid quantity, over a table that holds a row
C19_Witness ==
    /\ last.op = "parse_and_save_production_info"
    /\ last.status = "FileUploadError"
    /\ Len(last.missing) = 2
    /\ "quantity" \in file.columns
    /\ Len(file.rows) = MaxRows
    /\ ValidRows = DOMAIN file.rows
    /\ production_tbl # {}

\* C20: the upload of a sheet with all six columns succeeds whatever the
\* quantity cells are, and parses one record for every row whose quantity is
\* valid: a row with a missing, non-numeric or non-positive quantity is
\* dropped alone.
C20_BadQuantityRowRejectedAlone ==
    (last.op = "parse_and_save_production_info" /\ file.columns = RequiredSet) =>
        /\ last.status = "ok"
        /\ Len(last.records) = Cardinality(ValidRows)

---------------------------------------------------------------------------
(* Claims about filter_month and the document date, under SpecFilter *)

Parsed == last.op = "parse_and_save_production_info" /\ last.status = "ok"

\* the year and month a date text names, for the texts in the three formats
\* of the parser
DocYearMonth ==
    ("2025/10/1" :> <<2025, 10>>) @@ ("2025-09-03" :> <<2025, 9>>)
    @@ ("2024.09.05" :> <<2024, 9>>)

\* the year and month a yyyyMM text names
YearMonthOfFilter(text) ==
    <<1000 * Digit[text[1]] + 100 * Digit[text[2]] + 10 * Digit[text[3]]
        + Digit[text[4]],
      10 * Digit[text[5]] + Digit[text[6]]>>

\* six digits, the last two a month
IsYearMonthText(text) ==
    /\ Len(text) = 6
    /\ \A i \in DOMAIN text : text[i] \in DOMAIN Digit
    /\ YearMonthOfFilter(text)[2] \in 1..12

\* the rows whose document date is parseable and lies in the month the
\* filter names
RowsOfMonth(text) ==
    {i \in DOMAIN file.rows :
        /\ file.rows[i].doc_date \in DOMAIN DocYearMonth
        /\ DocYearMonth[file.rows[i].doc_date] = YearMonthOfFilter(text)}

C22_BadFilterMonthFailsCall ==
    [][(/\ ops' = ops + 1
        /\ last'.op = "parse_and_save_production_info"
        /\ last'.filter_month.given
        /\ ~IsYearMonthText(last'.filter_month.text)) =>
          /\ last'.status = "FileUploadError"
          /\ last'.where = "filter_month"
          /\ last'.records = <<>>
          /\ production_tbl' = production_tbl]_vars

\* the date a document-date text names, with or without a time part
DocDateOf ==
    ("2025/10/1" :> 20251001) @@ ("2025-09-03" :> 20250903)
    @@ ("2024.09.05" :> 20240905) @@ ("2025-09-03 00:00:00" :> 20250903)

\* C26: every record of a parse without filter has created_at equal to
\* updated_at, and both are the document date of its row when the cell is a
\* date text, with or without a time part.
C26_TimestampsAreDocumentDate ==
    (Parsed /\ ~last.filter_month.given) =>
        \A k \in DOMAIN last.records :
            /\ last.records[k].created_at = last.records[k].updated_at
            /\ file.rows[k].doc_date \in DOMAIN DocDateOf =>
                  last.records[k].created_at = DocDateOf[file.rows[k].doc_date]

\* the requests of a run are served within one calendar day
SameDay(t1, t2) == t1 \div 1000 = t2 \div 1000

\* C27: a second upload of the spreadsheet on the same day with the same
\* filter_month, right after a first one, leaves the number of production
\* rows as the first upload left it.
C27_SecondUploadAddsNoRow ==
    [][(/\ Parsed
        /\ ops' = ops + 1
        /\ last'.op = "parse_and_save_production_info"
        /\ last'.status = "ok"
        /\ last'.filter_month = last.filter_month
        /\ SameDay(last.now, last'.now)) =>
          Cardinality(production_tbl') = Cardinality(production_tbl)]_vars

---------------------------------------------------------------------------
(* Claims about the upload of a worklog workbook, under SpecSheet *)

SheetParsed == last.op = "parse_and_save_employee_worklog" /\ last.status = "ok"

\* C23: every record the worklog parser returns has a quantity, a performance
\* factor and a performance amount greater than 0 and the verdict
\* not-validated.
C23_ParsedWorklogsArePositive ==
    SheetParsed =>
        \A k \in DOMAIN last.records :
            /\ last.records[k].quantity > 0
            /\ FloatGT0(last.records[k].performance_factor)
            /\ FloatGT0(last.records[k].performance_amount)
            /\ last.records[k].validation_result = NOT_VLDED

\* the cells the claims speak of: an empty order number, a missing or
\* unparseable date, a missing or non-positive amount
EmptyOrderCells == {NoneCell, StrCell(" ")}
NoDateCells == {NoneCell, StrCell(""), IntCell(7)}
NoAmountCells ==
    {NoneCell, StrCell(""), StrCell("0"), IntCell(0), IntCell(0 - 1),
     FloatCell(0), FloatCell(0 - 10)}

DroppedRow(row) ==
    \/ CellAt(file.header, row, "order_no") \in EmptyOrderCells
    \/ CellAt(file.header, row, "work_date") \in NoDateCells
    \/ CellAt(file.header, row, "performance_amount") \in NoAmountCells

KeptRow(row) == ~DroppedRow(row)

\* C24: the parse of a sheet never fails over a row with an empty order
\* number, without a parseable date or without a positive amount; such rows
\* give no record, and the records returned are those of the sheet without
\* them.
C24_DroppedRowsDoNotAbort ==
    last.op = "parse_and_save_employee_worklog" =>
        /\ last.status = "ok"
        /\ Len(last.records) <= Len(SelectSeq(file.rows, KeptRow))
        /\ last.records =
              ParseEmployeeWorklogsFromExcel(
                  [file EXCEPT !.rows = SelectSeq(file.rows, KeptRow)]).results

\* a sheet whose first row has the amount 0.0 and whose second row is good:
\* one record, persisted
C24_Witness ==
    /\ SheetParsed
    /\ Len(file.rows) = 2
    /\ file.rows[1] = [GoodRow EXCEPT !.performance_amount = FloatCell(0)]
    /\ file.rows[2] = GoodRow
    /\ Len(last.records) = 1
    /\ Cardinality(worklog_tbl) = 1

\* the cells that hold an order number, a date, a positive amount
OrderNumberCells ==
    {StrCell("P1"), StrCell(" P9 "), IntCell(7), FloatCell(70), FloatCell(25)}
DatedCells == {DatetimeCell(20251001), StrCell("2025/10/1")}
PositiveAmountCells ==
    {IntCell(2), FloatCell(25), FloatCell(27), FloatCell(5), StrCell(" 3 "),
     StrCell("2.5")}

\* the quantity and the factor (in tenths) of the cells that hold a positive
\* number; every other cell stands for the default
QuantityOfCell == (IntCell(2) :> 2) @@ (FloatCell(27) :> 2) @@ (StrCell(" 3 ") :> 3)
FactorOfCell ==
    (IntCell(2) :> 20) @@ (FloatCell(27) :> 27) @@ (FloatCell(5) :> 5)
    @@ (FloatCell(15) :> 15) @@ (StrCell(" 3 ") :> 30) @@ (StrCell("2.5") :> 25)

CompleteRow(row) ==
    /\ CellAt(file.header, row, "order_no") \in OrderNumberCells
    /\ CellAt(file.header, row, "work_date") \in DatedCells
    /\ CellAt(file.header, row, "performance_amount") \in PositiveAmountCells

\* C25: a sheet whose rows all have an order number, a parseable date and a
\* positive amount gives one record per row, with the quantity of the cell or
\* 1 and the factor of the cell or 1.0 when the cell holds no positive number.
C25_QuantityAndFactorDefault ==
    (/\ last.op = "parse_and_save_employee_worklog"
     /\ \A i \in DOMAIN file.rows : CompleteRow(file.rows[i])) =>
        /\ last.status = "ok"
        /\ Len(last.records) = Len(file.rows)
        /\ \A k \in DOMAIN last.records :
            LET quantity == CellAt(file.header, file.rows[k], "quantity")
                factor == CellAt(file.header, file.rows[k], "performance_factor")
            IN  /\ last.records[k].quantity =
                      IF quantity \in DOMAIN QuantityOfCell
                      THEN QuantityOfCell[quantity] ELSE 1
                /\ last.records[k].performance_factor =
                      FloatValue(IF factor \in DOMAIN FactorOfCell
                                 THEN FactorOfCell[factor] ELSE 10)

---------------------------------------------------------------------------
(* Claims about the classification pass, read off the inputs and outputs *)

Returned == rc.state = "returned"

\* the input worklog objects of an order
RecordsOf(o) ==
    {i \in DOMAIN employee_worklog_list : employee_worklog_list[i].order_no = o}

\* the input production objects that carry the order as their key
ProductionOf(o) ==
    {j \in DOMAIN production_info_list : production_info_list[j].worklog_no = o}

RECURSIVE SumOver(_, _, _)
SumOver(S, f, field) ==
    IF S = {} THEN 0
    ELSE LET x == CHOOSE y \in S : TRUE
         IN  (IF field = "quantity" THEN f[x].quantity ELSE f[x].performance_amount)
             + SumOver(S \ {x}, f, field)

WorklogSum(o) == SumOver(RecordsOf(o), employee_worklog_list, "performance_amount")
ProductionSum(o) == SumOver(ProductionOf(o), production_info_list, "quantity")

\* the list holds exactly the objects of S, each once
ExactlyRecords(list, S) == Len(list) = Cardinality(S) /\ Range(list) = S

AllClassified(o, v) ==
    \A i \in RecordsOf(o) : rc.worklogs[i].validation_result = v

\* how often object i occurs in the lists of the two outputs
Occurrences(i) ==
    Cardinality({<<k, j>> \in (DOMAIN rc.exceptions) \X (1..Len(employee_worklog_list)) :
                    j \in DOMAIN rc.exceptions[k] /\ rc.exceptions[k][j] = i})
    + Cardinality({<<o, j>> \in (DOMAIN rc.normal) \X (1..Len(employee_worklog_list)) :
                    j \in DOMAIN rc.normal[o] /\ rc.normal[o][j] = i})

\* C1: when the call returns, every order of the worklog input that no
\* production object carries as its key has all its records classified
\* order-not-found and listed under exceptions[(order_no, order-not-found)],
\* whatever their amounts, and has no exceeds-quantity entry.
C1_OrderNotFound ==
    Returned =>
        \A o \in Orders :
            (RecordsOf(o) # {} /\ ProductionOf(o) = {}) =>
                /\ <<o, ORDER_NO_NOT_FOUND>> \in DOMAIN rc.exceptions
                /\ ExactlyRecords(rc.exceptions[<<o, ORDER_NO_NOT_FOUND>>], RecordsOf(o))
                /\ AllClassified(o, ORDER_NO_NOT_FOUND)
                /\ <<o, PERFORMANCE_EXCEEDS_QUANTITY>> \notin DOMAIN rc.exceptions

\* an unmatched order with several records, beside production of another order
C1_Witness ==
    /\ Returned
    /\ production_info_list # <<>>
    /\ \E o \in Orders :
          /\ Cardinality(RecordsOf(o)) >= 2 /\ ProductionOf(o) = {}
          /\ AllClassified(o, ORDER_NO_NOT_FOUND)

\* C2: when the call returns, every order that has production and whose
\* summed performance_amount is strictly greater than its summed production
\* quantity has all its records classified exceeds-quantity and listed under
\* exceptions[(order_no, exceeds-quantity)].
C2_ExceedsQuantity ==
    Returned =>
        \A o \in Orders :
            (/\ RecordsOf(o) # {} /\ ProductionOf(o) # {}
             /\ WorklogSum(o) > ProductionSum(o)) =>
                /\ <<o, PERFORMANCE_EXCEEDS_QUANTITY>> \in DOMAIN rc.exceptions
                /\ ExactlyRecords(rc.exceptions[<<o, PERFORMANCE_EXCEEDS_QUANTITY>>],
                                  RecordsOf(o))
                /\ AllClassified(o, PERFORMANCE_EXCEEDS_QUANTITY)

\* scenario B: no single record exceeds the production total, the sum does
C2_Witness ==
    /\ Returned
    /\ \E o \in Orders :
          /\ ProductionOf(o) # {}
          /\ Cardinality(RecordsOf(o)) >= 2
          /\ WorklogSum(o) > ProductionSum(o)
          /\ \A i \in RecordsOf(o) :
                employee_worklog_list[i].performance_amount <= ProductionSum(o)
          /\ AllClassified(o, PERFORMANCE_EXCEEDS_QUANTITY)

C4_ExactlyOneGroup ==
    Returned =>
        /\ \A i \in DOMAIN employee_worklog_list : Occurrences(i) = 1
        /\ \A o \in Orders :
              Cardinality({g \in {"nf", "ex", "ok"} :
                  \/ g = "nf" /\ <<o, ORDER_NO_NOT_FOUND>> \in DOMAIN rc.exceptions
                  \/ g = "ex" /\ <<o, PERFORMANCE_EXCEEDS_QUANTITY>> \in DOMAIN rc.exceptions
                  \/ g = "ok" /\ o \in DOMAIN rc.normal}) <= 1

\* a full input list that lands in both outputs
C4_Witness ==
    /\ Returned
    /\ Len(employee_worklog_list) = MaxWorklogs
    /\ DOMAIN rc.exceptions # {}
    /\ DOMAIN rc.normal # {}

\* C5: when the call returns, any two input worklog objects of the same
\* order carry the same validation_result.
C5_VerdictPerOrder ==
    Returned =>
        \A i, j \in DOMAIN employee_worklog_list :
            employee_worklog_list[i].order_no = employee_worklog_list[j].order_no
                => rc.worklogs[i].validation_result = rc.worklogs[j].validation_result

\* two records of one order that came in with different validation_result
C5_Witness ==
    /\ Returned
    /\ \E i, j \in DOMAIN employee_worklog_list :
          /\ i # j
          /\ employee_worklog_list[i].order_no = employee_worklog_list[j].order_no
          /\ employee_worklog_list[i].validation_result
                # employee_worklog_list[j].validation_result
          /\ rc.worklogs[i].validation_result = rc.worklogs[j].validation_result

\* the verdict of a run for an order of the worklog input, read off the inputs
VerdictOf(o) ==
    IF ProductionOf(o) = {} THEN ORDER_NO_NOT_FOUND
    ELSE IF WorklogSum(o) > ProductionSum(o) THEN PERFORMANCE_EXCEEDS_QUANTITY
    ELSE VLD_PASSED

\* C11: when the call returns, every input worklog object has a
\* validation_result among passed, exceeds-quantity and order-not-found, and
\* it is the verdict of this run for its order, whatever the object carried
\* before the run.
C11_VerdictReplacesStale ==
    Returned =>
        \A i \in DOMAIN employee_worklog_list :
            /\ rc.worklogs[i].validation_result
                  \in {VLD_PASSED, PERFORMANCE_EXCEEDS_QUANTITY, ORDER_NO_NOT_FOUND}
            /\ rc.worklogs[i].validation_result
                  = VerdictOf(employee_worklog_list[i].order_no)

\* an object that came in as exceeds-quantity, and one not yet validated,
\* both leave the run as passed
C11_Witness ==
    /\ Returned
    /\ \E i, j \in DOMAIN employee_worklog_list :
          /\ employee_worklog_list[i].validation_result = PERFORMANCE_EXCEEDS_QUANTITY
          /\ rc.worklogs[i].validation_result = VLD_PASSED
          /\ employee_worklog_list[j].validation_result = NOT_VLDED
          /\ rc.worklogs[j].validation_result = VLD_PASSED

\* C12: a call, whether it returns or raises, leaves every worklog object
\* equal to what it was in every field other than validation_result, keeps
\* the list as it was, and leaves the production objects unchanged.
C12_OnlyValidationResultChanges ==
    [][(rc.state = "input" /\ rc'.state # "input") =>
          /\ production_info_list' = production_info_list
          /\ employee_worklog_list' = employee_worklog_list
          /\ DOMAIN rc'.worklogs = DOMAIN employee_worklog_list
          /\ \A i \in DOMAIN employee_worklog_list :
                [rc'.worklogs[i] EXCEPT !.validation_result =
                    employee_worklog_list[i].validation_result]
                = employee_worklog_list[i]]_vars

\* a returned call over a full worklog list, with production present, in
\* which every object changed its validation_result
C12_Witness ==
    /\ Returned
    /\ production_info_list # <<>>
    /\ Len(employee_worklog_list) = MaxWorklogs
    /\ \A i \in DOMAIN employee_worklog_list :
          rc.worklogs[i].validation_result # employee_worklog_list[i].validation_result

\* C18: when the call returns, the production total of step 1 for an order
\* key is the sum of quantity over all production objects of the input that
\* carry that key, and only keys carried by some production object have one.
C18_ProductionTotalIsSum ==
    Returned =>
        /\ DOMAIN rc.production_agg = {o \in Orders : ProductionOf(o) # {}}
        /\ \A o \in DOMAIN rc.production_agg : rc.production_agg[o] = ProductionSum(o)

\* two production objects of one key whose total, and neither quantity
\* alone, covers the worklog sum of the order
C18_Witness ==
    /\ Returned
    /\ \E o \in Orders :
          /\ Cardinality(ProductionOf(o)) = 2
          /\ RecordsOf(o) # {}
          /\ \A j \in ProductionOf(o) : production_info_list[j].quantity < WorklogSum(o)
          /\ WorklogSum(o) <= ProductionSum(o)
          /\ rc.production_agg[o] = ProductionSum(o)
          /\ AllClassified(o, VLD_PASSED)

====
